---- MODULE Spec2Model ----
(***************************************************************************)
(* The MCP bridge API (src/index.js): an Express process that connects one *)
(* MCP client to an upstream server at startup, then serves REST requests  *)
(* guarded by a static API key, and shuts down on SIGTERM / SIGINT.        *)
(*                                                                         *)
(* Strings are sequences of one-character strings, so that the header      *)
(* parsing and the byte comparison of authenticateApiKey are computed and  *)
(* not assumed.  Every request travels on a connection of its own, which   *)
(* the client keeps open until the response has been written.              *)
(***************************************************************************)
EXTENDS Integers, Sequences, FiniteSets, TLC

\* Number of connection attempts a behaviour may contain.
MaxRequests == 2
\* Number of termination signals delivered to the registered handlers.
MaxSignals == 2

VARIABLES
    API_KEY,        \* process.env.API_KEY
    NODE_ENV,       \* process.env.NODE_ENV || "development"
    MCP_SERVER_URL, \* process.env.MCP_SERVER_URL: "missing", "invalid" or "ok"
    pc,             \* position of the module's top-level code
    exitCode,       \* -1 while the process runs, else its exit code
    mcpTransport,   \* module variable: FALSE = undefined, TRUE = an object
    mcpClient,      \* module variable: FALSE = undefined, TRUE = an object
    server,         \* "undefined", "listening", or "closed" (handle closed)
    session,        \* state of the upstream handle held by mcpClient
    connectCalls,   \* number of mcpClient.connect() calls started
    closeCalls,     \* number of mcpClient.close() calls started
    closeDone,      \* number of mcpClient.close() calls settled
    cb,             \* one server.close callback per gracefulShutdown call
    timers,         \* number of armed force-shutdown timers
    reqs,           \* per connection attempt: what became of it
    nextReq,        \* number of connection attempts so far
    req,            \* the request object of the handler run by the last step
    drain,          \* requests that were in flight when shutdown began
    warnings        \* number of "running without authentication" warnings

vars == <<API_KEY, NODE_ENV, MCP_SERVER_URL, pc, exitCode, mcpTransport,
          mcpClient, server, session, connectCalls, closeCalls, closeDone,
          cb, timers, reqs, nextReq, req, drain, warnings>>

config == <<API_KEY, NODE_ENV, MCP_SERVER_URL>>

----------------------------------------------------------------------------
(* JavaScript values *)

\* The value undefined (an absent header, body field or environment variable).
Undefined == <<"undefined">>
\* A body field that is present but is not a string (a number).
NonString == <<"number">>
\* !v for the strings and undefined used here.
Falsy(v) == v = Undefined \/ v = <<>>

Bearer == <<"B", "e", "a", "r", "e", "r", " ">>

\* pat occurs in s at index i.
OccursAt(s, pat, i) ==
    /\ i + Len(pat) - 1 <= Len(s)
    /\ \A j \in 1..Len(pat) : s[i + j - 1] = pat[j]

\* String.prototype.replace(pat, rep) with a string pattern: the first
\* occurrence only.
Replace(s, pat, rep) ==
    LET hits == {i \in 1..Len(s) : OccursAt(s, pat, i)}
    IN  IF hits = {} THEN s
        ELSE LET i == CHOOSE k \in hits : \A m \in hits : k <= m
             IN  SubSeq(s, 1, i - 1) \o rep \o SubSeq(s, i + Len(pat), Len(s))

\* A comparison that stops after the first byte.
timingSafeEqual_FirstByte(a, b) ==
    IF Len(a) # Len(b) THEN "throw"
    ELSE IF Len(a) = 0 \/ a[1] = b[1] THEN "true" ELSE "false"

\* crypto.timingSafeEqual(a, b): throws on buffers of different length,
\* otherwise compares every byte.
timingSafeEqual(a, b) ==
    IF Len(a) # Len(b) THEN "throw"
    ELSE IF \A i \in 1..Len(a) : a[i] = b[i] THEN "true" ELSE "false"

----------------------------------------------------------------------------
(* Inputs *)

\* The values the environment may give API_KEY.
ApiKeyEnv == {Undefined, <<"a", "b">>}

\* The x-api-key and authorization headers of a request, as a pair: each
\* header alone, absent or empty, of the wrong length, of the right length
\* with the first difference at either position, with and without the Bearer
\* prefix, and both headers together.
Headers ==
    {<<x, Undefined>> : x \in {Undefined, <<>>, <<"a">>, <<"a", "b">>,
                               <<"a", "a">>, <<"b", "b">>, <<"a", "b", "a">>}}
    \cup
    {<<Undefined, a>> : a \in {<<"a", "b">>, Bearer \o <<"a", "b">>,
                               Bearer \o <<"b", "b">>, Bearer \o <<"b">>,
                               Bearer}}
    \cup
    {<<(<<>>), Bearer \o <<"a", "b">> >>,
     <<(<<"b", "b">>), Bearer \o <<"a", "b">> >>,
     <<(<<"a", "b">>), Bearer \o <<"b">> >>}

\* The query and customer_id fields of a JSON body, as a pair.
Bodies ==
    {<<Undefined, Undefined>>, <<Undefined, <<"c">> >>, <<(<<>>), <<"c">> >>,
     <<NonString, <<"c">> >>, <<(<<"q">>), Undefined>>, <<(<<"q">>), <<>> >>,
     <<(<<"q">>), <<"c">> >>}

Tools == "GET /api/tools"
Accounts == "GET /api/google-ads/accounts"
ExecuteGaql == "POST /api/google-ads/execute-gaql"
GaqlDoc == "GET /api/google-ads/gaql-doc"
ReportingViewDoc == "GET /api/google-ads/reporting-view-doc"
Health == "GET /health"
\* Any method and path no route is registered for.
Unrouted == "GET /unknown"

Protected == {Tools, Accounts, ExecuteGaql, GaqlDoc, ReportingViewDoc}
Routes == Protected \cup {Health, Unrouted}

\* Values a rejected upstream promise can carry: an Error, an object without
\* a message, an error holding a circular reference, and null.
Errors == {"Error", "noMessage", "circular", "null"}
\* Payloads a resolved upstream call can carry.
Payloads == {"result", "isError"}

----------------------------------------------------------------------------
(* Error normalisation *)

\* serializeError(error) reads error.message before its own try block, so it
\* throws a TypeError when error is null or undefined.
SerializeErrorThrows(e) == e = "null"

\* error.message as the handlers and serializeError read it.
MessageOf(e) == IF e \in {"Error", "circular"} THEN "message" ELSE "undefined"

\* serializeError(error), lines 88-118: whether it throws, and the message
\* field of the object it returns (copied from the error, line 90).
serializeError(e) ==
    IF SerializeErrorThrows(e)
      THEN [throws |-> TRUE, message |-> "none"]
      ELSE [throws |-> FALSE, message |-> MessageOf(e)]

\* JSON.stringify(serializeError(error), null, 2), the argument of the
\* console.error call that opens every catch block: serializeError copies
\* every own property into allProperties, and JSON.stringify throws on a
\* circular structure.
LogErrorThrows(e) == SerializeErrorThrows(e) \/ e = "circular"

----------------------------------------------------------------------------
(* State *)

\* up is the value the awaited upstream call settled with, when the step ran
\* the rest of a handler after its await (id is 0 for the startup probe).
NoReq == [id |-> 0, ep |-> "none", xkey |-> Undefined, auth |-> Undefined,
          query |-> Undefined, cid |-> Undefined, up |-> "none"]

NewReq == [st |-> "new", status |-> 0, body |-> "none", calls |-> 0,
           sess |-> "none"]

Running == pc # "exited"

Pending == {r \in 1..MaxRequests : reqs[r].st = "pending"}

Init ==
    /\ API_KEY \in ApiKeyEnv
    /\ NODE_ENV \in {"development", "production"}
    /\ MCP_SERVER_URL \in {"missing", "invalid", "ok"}
    /\ pc = "boot"
    /\ exitCode = -1
    /\ mcpTransport = FALSE
    /\ mcpClient = FALSE
    /\ server = "undefined"
    /\ session = "none"
    /\ connectCalls = 0
    /\ closeCalls = 0
    /\ closeDone = 0
    /\ cb = <<>>
    /\ timers = 0
    /\ reqs = [r \in 1..MaxRequests |-> NewReq]
    /\ nextReq = 0
    /\ req = NoReq
    /\ drain = {}
    /\ warnings = 0

----------------------------------------------------------------------------
(* Startup *)

\* process.exit(code): the state freezes.
Exit(code) ==
    /\ pc' = "exited"
    /\ exitCode' = code

\* Lines 18-31: the environment checks that run when the module is loaded.
ValidateEnv ==
    /\ pc = "boot"
    /\ IF MCP_SERVER_URL = "missing"
         THEN Exit(1) /\ UNCHANGED warnings
       ELSE IF Falsy(API_KEY) /\ NODE_ENV = "production"
         THEN Exit(1) /\ UNCHANGED warnings
       ELSE /\ pc' = "init"
            /\ warnings' = IF Falsy(API_KEY) THEN warnings + 1 ELSE warnings
            /\ UNCHANGED exitCode
    /\ req' = NoReq
    /\ UNCHANGED <<config, mcpTransport, mcpClient, server, session,
                   connectCalls, closeCalls, closeDone, cb, timers, reqs,
                   nextReq, drain>>

\* Lines 482-488: the catch around the top-level await.  initMCPClient only
\* throws Error objects or a value it has already serialized, so logging the
\* error succeeds and the process exits with code 1.
FailStartup == Exit(1)

\* initMCPClient called without being awaited: the listener starts while the
\* connect is still in flight.
initMCPClient_NoAwait(ctor) ==
    /\ pc = "init"
    /\ MCP_SERVER_URL = "ok"
    /\ ctor = "none"
    /\ mcpTransport' = TRUE
    /\ mcpClient' = TRUE
    /\ session' = "connecting"
    /\ connectCalls' = connectCalls + 1
    /\ pc' = "connecting"
    /\ server' = "listening"
    /\ req' = NoReq
    /\ UNCHANGED <<config, exitCode, closeCalls, closeDone, cb, timers, reqs,
                   nextReq, drain, warnings>>

\* initMCPClient up to its first await (lines 124-187).  ctor says which
\* constructor, if any, throws.
initMCPClient(ctor) ==
    /\ pc = "init"
    /\ IF MCP_SERVER_URL = "invalid"
         THEN /\ FailStartup
              /\ UNCHANGED <<mcpTransport, mcpClient, session, connectCalls>>
       ELSE IF ctor = "transport"
         THEN /\ FailStartup
              /\ UNCHANGED <<mcpTransport, mcpClient, session, connectCalls>>
       ELSE IF ctor = "client"
         THEN /\ FailStartup
              /\ mcpTransport' = TRUE
              /\ UNCHANGED <<mcpClient, session, connectCalls>>
       ELSE /\ mcpTransport' = TRUE
            /\ mcpClient' = TRUE
            /\ session' = "connecting"
            /\ connectCalls' = connectCalls + 1
            /\ pc' = "connecting"
            /\ UNCHANGED exitCode
    /\ req' = NoReq
    /\ UNCHANGED <<config, server, closeCalls, closeDone, cb, timers, reqs,
                   nextReq, drain, warnings>>

\* Lines 472-481 and 523-525: app.listen, then the signal handlers are
\* registered; the top-level code is done.
StartServer ==
    /\ server' = "listening"
    /\ pc' = "serving"
    /\ UNCHANGED exitCode

\* Lines 187-194: connect resolved; the listTools probe is started.
ConnectResolves ==
    /\ pc = "connecting"
    /\ session' = "connected"
    /\ pc' = "probing"
    /\ req' = NoReq
    /\ UNCHANGED <<config, exitCode, mcpTransport, mcpClient, server,
                   connectCalls, closeCalls, closeDone, cb, timers, reqs,
                   nextReq, drain, warnings>>

\* The connect error is logged and not rethrown: the server starts anyway.
ConnectRejects_Swallowed(e) ==
    /\ pc = "connecting"
    /\ e \in Errors
    /\ session' = "failed"
    /\ StartServer
    /\ req' = NoReq
    /\ UNCHANGED <<config, mcpTransport, mcpClient, connectCalls, closeCalls,
                   closeDone, cb, timers, reqs, nextReq, drain, warnings>>

\* Lines 207-211 and 482-488: connect rejected with e.  Whether or not the
\* log line at 209 throws, an error leaves initMCPClient and startup fails.
ConnectRejects(e) ==
    /\ pc = "connecting"
    /\ e \in Errors
    /\ session' = "failed"
    /\ FailStartup
    /\ req' = NoReq
    /\ UNCHANGED <<config, mcpTransport, mcpClient, server, connectCalls,
                   closeCalls, closeDone, cb, timers, reqs, nextReq, drain,
                   warnings>>

\* Lines 194-201, 213: the probe resolved.
ProbeResolves ==
    /\ pc = "probing"
    /\ StartServer
    /\ req' = NoReq
    /\ UNCHANGED <<config, mcpTransport, mcpClient, session, connectCalls,
                   closeCalls, closeDone, cb, timers, reqs, nextReq, drain,
                   warnings>>

\* A failed probe drops the session handle.
ProbeRejects_ClearsHandle(e) ==
    /\ pc = "probing"
    /\ e \in Errors
    /\ IF LogErrorThrows(e)
         THEN FailStartup /\ UNCHANGED server
         ELSE StartServer
    /\ mcpClient' = FALSE
    /\ req' = [NoReq EXCEPT !.up = e]
    /\ UNCHANGED <<config, mcpTransport, session, connectCalls, closeCalls,
                   closeDone, cb, timers, reqs, nextReq, drain, warnings>>

\* A failed probe starts the connect again.
ProbeRejects_Reconnect(e) ==
    /\ pc = "probing"
    /\ e \in Errors
    /\ session' = "connecting"
    /\ connectCalls' = connectCalls + 1
    /\ pc' = "connecting"
    /\ req' = NoReq
    /\ UNCHANGED <<config, exitCode, mcpTransport, mcpClient, server,
                   closeCalls, closeDone, cb, timers, reqs, nextReq, drain,
                   warnings>>

\* Lines 202-211: the probe rejected with e.  The inner catch logs
\* JSON.stringify(serializeError(testError)); when that throws, the TypeError
\* reaches the outer catch, which rethrows it, and startup fails.
ProbeRejects(e) ==
    /\ pc = "probing"
    /\ e \in Errors
    /\ IF LogErrorThrows(e)
         THEN FailStartup /\ UNCHANGED server
         ELSE StartServer
    /\ req' = [NoReq EXCEPT !.up = e]
    /\ UNCHANGED <<config, mcpTransport, mcpClient, session, connectCalls,
                   closeCalls, closeDone, cb, timers, reqs, nextReq, drain,
                   warnings>>

\* The mcpConnected field of the health body (line 220).
mcpConnected == mcpClient

\* A SIGTERM (143) or SIGINT (130) that arrives while the top-level await is
\* pending: no handler is registered yet (lines 523-525 run after the
\* await), so the signal's default action ends the process.
EarlySignal(sig) ==
    /\ pc \in {"connecting", "probing"}
    /\ sig \in {130, 143}
    /\ Exit(sig)
    /\ req' = NoReq
    /\ UNCHANGED <<config, mcpTransport, mcpClient, server, session,
                   connectCalls, closeCalls, closeDone, cb, timers, reqs,
                   nextReq, drain, warnings>>

----------------------------------------------------------------------------
(* Request handling *)

\* Line 49: req.headers["x-api-key"] ||
\*          req.headers["authorization"]?.replace("Bearer ", "")
PresentedKey(xkey, auth) ==
    IF ~Falsy(xkey) THEN xkey
    ELSE IF auth = Undefined THEN Undefined
    ELSE Replace(auth, Bearer, <<>>)

\* A key of the wrong length is refused with an answer of its own.
CheckApiKey_LengthOracle(xkey, auth) ==
    LET apiKey == PresentedKey(xkey, auth)
    IN  IF Falsy(apiKey)
          THEN [next |-> FALSE, status |-> 401,
                body |-> "Authentication required", warn |-> 0]
        ELSE IF Len(apiKey) # Len(API_KEY)
          THEN [next |-> FALSE, status |-> 400,
                body |-> "Invalid API key length", warn |-> 0]
        ELSE IF timingSafeEqual(apiKey, API_KEY) # "true"
          THEN [next |-> FALSE, status |-> 403,
                body |-> "Invalid API key", warn |-> 0]
        ELSE [next |-> TRUE, status |-> 0, body |-> "none", warn |-> 0]

\* Lines 49-84 of authenticateApiKey: the presented key is checked against
\* API_KEY.  Any exception of the comparison path (line 77) is answered like a
\* wrong key.
CheckApiKey(xkey, auth) ==
    LET apiKey == PresentedKey(xkey, auth)
    IN  IF Falsy(apiKey)
          THEN [next |-> FALSE, status |-> 401,
                body |-> "Authentication required", warn |-> 0]
        ELSE IF API_KEY = Undefined
          \* Buffer.from(undefined) throws
          THEN [next |-> FALSE, status |-> 403,
                body |-> "Invalid API key", warn |-> 0]
        ELSE IF Len(apiKey) # Len(API_KEY)
          THEN [next |-> FALSE, status |-> 403,
                body |-> "Invalid API key", warn |-> 0]
        ELSE IF timingSafeEqual(apiKey, API_KEY) # "true"
          THEN [next |-> FALSE, status |-> 403,
                body |-> "Invalid API key", warn |-> 0]
        ELSE [next |-> TRUE, status |-> 0, body |-> "none", warn |-> 0]

\* The number of bytes crypto.timingSafeEqual compares: all of them, whatever
\* their values.
timingSafeEqualWork(a, b) == Len(a)

\* The number of byte comparisons lines 58-76 make for a presented key: the
\* length test of line 64 returns before timingSafeEqual is called.
CompareWork(apiKey) ==
    IF Len(apiKey) # Len(API_KEY) THEN 0
    ELSE timingSafeEqualWork(apiKey, API_KEY)

\* The middleware without the early return of lines 44-47.
authenticateApiKey_NoSkip(xkey, auth) == CheckApiKey(xkey, auth)

\* authenticateApiKey (lines 42-85): next() is called, or a response is sent.
\* Without a configured key every request passes, with a warning.
authenticateApiKey(xkey, auth) ==
    IF Falsy(API_KEY)
      THEN [next |-> TRUE, status |-> 0, body |-> "none", warn |-> 1]
      ELSE CheckApiKey(xkey, auth)

\* What a response sent before any await looks like.
Respond(status, body) == [invoke |-> FALSE, status |-> status, body |-> body]
\* The handler reached its upstream call and is suspended on it.
Invoke == [invoke |-> TRUE, status |-> 0, body |-> "none"]

\* A handler that forwards the body without validating it.
Endpoint_NoValidation(ep, query, cid) ==
    IF ~mcpClient THEN Respond(503, "MCP client not initialized") ELSE Invoke

\* The body of a protected route's handler up to its await (lines 226-245,
\* 260-291, 310-367, 382-406, 421-448).
Endpoint(ep, query, cid) ==
    IF ~mcpClient
      THEN Respond(503, "MCP client not initialized")
    ELSE IF ep = ExecuteGaql
      THEN IF query = NonString
             \* line 322: query?.substring is not a function; the TypeError
             \* is caught at line 368 and serializes without trouble
             THEN Respond(500, "error envelope")
           ELSE IF Falsy(query)
             THEN Respond(400, "query is required")
           ELSE IF Falsy(cid)
             THEN Respond(400, "customer_id is required")
           ELSE Invoke
    ELSE Invoke

\* The health route registered behind the middleware like the others.
Route_HealthProtected(ep, xkey, auth, query, cid) ==
    IF ep \in Protected \cup {Health}
      THEN LET a == authenticateApiKey(xkey, auth)
           IN  IF ~a.next THEN Respond(a.status, a.body) @@ [warn |-> a.warn]
               ELSE IF ep = Health
                 THEN Respond(200, "health") @@ [warn |-> a.warn]
               ELSE Endpoint(ep, query, cid) @@ [warn |-> a.warn]
    ELSE Respond(404, "Not Found") @@ [warn |-> 0]

\* A middleware that goes on to next() after it has sent its refusal.
Route_NoReturn(ep, xkey, auth, query, cid) ==
    IF ep = Health
      THEN Respond(200, "health") @@ [warn |-> 0]
    ELSE IF ep \in Protected
      THEN LET a == authenticateApiKey(xkey, auth)
               o == Endpoint(ep, query, cid)
           IN  IF a.next THEN o @@ [warn |-> a.warn]
               ELSE [invoke |-> o.invoke, status |-> a.status,
                     body |-> a.body, warn |-> a.warn]
    ELSE Respond(404, "Not Found") @@ [warn |-> 0]

\* The handler's own checks run before the middleware.
Route_ValidateFirst(ep, xkey, auth, query, cid) ==
    IF ep = Health
      THEN Respond(200, "health") @@ [warn |-> 0]
    ELSE IF ep \in Protected
      THEN LET a == authenticateApiKey(xkey, auth)
               o == Endpoint(ep, query, cid)
           IN  IF ~o.invoke THEN o @@ [warn |-> 0]
               ELSE IF a.next THEN o @@ [warn |-> a.warn]
               ELSE Respond(a.status, a.body) @@ [warn |-> a.warn]
    ELSE Respond(404, "Not Found") @@ [warn |-> 0]

\* The middleware chain of one request, up to the response or the first await.
Route(ep, xkey, auth, query, cid) ==
    IF ep = Health
      THEN Respond(200, "health") @@ [warn |-> 0]
    ELSE IF ep \in Protected
      THEN LET a == authenticateApiKey(xkey, auth)
           IN  IF a.next
                 THEN Endpoint(ep, query, cid) @@ [warn |-> a.warn]
                 ELSE Respond(a.status, a.body) @@ [warn |-> a.warn]
    ELSE Respond(404, "Not Found") @@ [warn |-> 0]

\* Only the POST route is sent a body.
BodiesOf(ep) == IF ep = ExecuteGaql THEN Bodies ELSE {<<Undefined, Undefined>>}

\* A request arrives on a new connection while the server is listening, and
\* its handler runs until it has answered or awaits the upstream call.
Request(ep, xkey, auth, query, cid) ==
    /\ Running
    /\ server = "listening"
    /\ nextReq < MaxRequests
    /\ ep \in Routes
    /\ <<xkey, auth>> \in Headers
    /\ <<query, cid>> \in BodiesOf(ep)
    /\ LET r == nextReq + 1
           o == Route(ep, xkey, auth, query, cid)
       IN  /\ nextReq' = r
           /\ req' = [id |-> r, ep |-> ep, xkey |-> xkey, auth |-> auth,
                      query |-> query, cid |-> cid, up |-> "none"]
           /\ reqs' = [reqs EXCEPT ![r] =
                         [st |-> IF o.invoke THEN "pending" ELSE "answered",
                          status |-> o.status, body |-> o.body,
                          calls |-> IF o.invoke THEN 1 ELSE 0,
                          sess |-> session]]
           /\ warnings' = warnings + o.warn
    /\ UNCHANGED <<config, pc, exitCode, mcpTransport, mcpClient, server,
                   session, connectCalls, closeCalls, closeDone, cb, timers,
                   drain>>

\* A client tries to connect while the process runs but no socket is
\* listening (before app.listen at line 475, or after server.close() at line
\* 496): the connection is refused and no handler runs.
ConnectionRefused ==
    /\ Running
    /\ server # "listening"
    /\ nextReq < MaxRequests
    /\ nextReq' = nextReq + 1
    /\ reqs' = [reqs EXCEPT ![nextReq + 1] =
                  [NewReq EXCEPT !.st = "refused", !.sess = session]]
    /\ req' = NoReq
    /\ UNCHANGED <<config, pc, exitCode, mcpTransport, mcpClient, server,
                   session, connectCalls, closeCalls, closeDone, cb, timers,
                   drain, warnings>>

\* One result slot shared by the requests in flight: every pending request is
\* answered with the payload that arrived.
UpstreamResolves_Broadcast(r, p) ==
    /\ Running
    /\ r \in Pending
    /\ p \in Payloads
    /\ reqs' = [q \in 1..MaxRequests |->
                  IF q \in Pending
                    THEN [reqs[q] EXCEPT !.st = "answered", !.status = 200,
                                         !.body = p]
                    ELSE reqs[q]]
    /\ req' = [NoReq EXCEPT !.id = r, !.up = p]
    /\ UNCHANGED <<config, pc, exitCode, mcpTransport, mcpClient, server,
                   session, connectCalls, closeCalls, closeDone, cb, timers,
                   nextReq, drain, warnings>>

\* A payload that reports an error is answered as a failure.
UpstreamResolves_IsErrorAs500(r, p) ==
    /\ Running
    /\ r \in Pending
    /\ p \in Payloads
    /\ reqs' = [reqs EXCEPT ![r].st = "answered",
                            ![r].status = IF p = "isError" THEN 500 ELSE 200,
                            ![r].body = p]
    /\ req' = [NoReq EXCEPT !.id = r, !.up = p]
    /\ UNCHANGED <<config, pc, exitCode, mcpTransport, mcpClient, server,
                   session, connectCalls, closeCalls, closeDone, cb, timers,
                   nextReq, drain, warnings>>

\* The awaited upstream call of request r resolves with payload p: the
\* handler sends it with res.json (lines 245, 291, 367, 406, 448).
UpstreamResolves(r, p) ==
    /\ Running
    /\ r \in Pending
    /\ p \in Payloads
    /\ reqs' = [reqs EXCEPT ![r].st = "answered", ![r].status = 200,
                            ![r].body = p]
    /\ req' = [NoReq EXCEPT !.id = r, !.up = p]
    /\ UNCHANGED <<config, pc, exitCode, mcpTransport, mcpClient, server,
                   session, connectCalls, closeCalls, closeDone, cb, timers,
                   nextReq, drain, warnings>>

\* A rejected call is made again instead of being answered.
UpstreamRejects_Retry(r, e, crash) ==
    /\ Running
    /\ r \in Pending
    /\ e \in Errors
    /\ crash \in BOOLEAN
    /\ reqs[r].calls <= MaxRequests
    /\ reqs' = [reqs EXCEPT ![r].calls = @ + 1]
    /\ req' = [NoReq EXCEPT !.id = r, !.up = e]
    /\ UNCHANGED <<config, pc, exitCode, mcpTransport, mcpClient, server,
                   session, connectCalls, closeCalls, closeDone, cb, timers,
                   nextReq, drain, warnings>>

\* The awaited upstream call of request r rejects with e (the catch blocks at
\* lines 246-256, 292-306, 368-378, 407-417, 449-459).  When the log line
\* throws, the rejection leaves the async handler: under Express 4 it is an
\* unhandled rejection, which ends the process with code 1 (crash); under
\* Express 5 the router passes it to the default error handler, which answers
\* 500 without the handler's envelope.
UpstreamRejects(r, e, crash) ==
    /\ Running
    /\ r \in Pending
    /\ e \in Errors
    /\ crash \in BOOLEAN
    /\ IF ~LogErrorThrows(e)
         THEN /\ reqs' = [reqs EXCEPT ![r].st = "answered", ![r].status = 500,
                                      ![r].body = "error envelope"]
              /\ UNCHANGED <<pc, exitCode>>
       ELSE IF crash
         THEN /\ reqs' = [reqs EXCEPT ![r].st = "lost"]
              /\ Exit(1)
       ELSE /\ reqs' = [reqs EXCEPT ![r].st = "answered", ![r].status = 500,
                                    ![r].body = "Internal Server Error"]
            /\ UNCHANGED <<pc, exitCode>>
    /\ req' = [NoReq EXCEPT !.id = r, !.up = e]
    /\ UNCHANGED <<config, mcpTransport, mcpClient, server, session,
                   connectCalls, closeCalls, closeDone, cb, timers, nextReq,
                   drain, warnings>>

----------------------------------------------------------------------------
(* Shutdown *)

\* gracefulShutdown without the setTimeout of lines 514-517.
gracefulShutdown_NoTimer(sig) ==
    /\ Running
    /\ pc = "serving"
    /\ sig \in {"SIGTERM", "SIGINT"}
    /\ Len(cb) < MaxSignals
    /\ server' = "closed"
    /\ cb' = Append(cb, "registered")
    /\ drain' = IF cb = <<>> THEN Pending ELSE drain
    /\ req' = NoReq
    /\ UNCHANGED <<config, pc, exitCode, mcpTransport, mcpClient, session,
                   connectCalls, closeCalls, closeDone, timers, reqs, nextReq,
                   warnings>>

\* gracefulShutdown closing the MCP client at once and leaving the listener
\* open.
gracefulShutdown_SessionFirst(sig) ==
    /\ Running
    /\ pc = "serving"
    /\ sig \in {"SIGTERM", "SIGINT"}
    /\ Len(cb) < MaxSignals
    /\ session' = "closing"
    /\ closeCalls' = closeCalls + 1
    /\ cb' = Append(cb, "closing")
    /\ timers' = timers + 1
    /\ drain' = IF cb = <<>> THEN Pending ELSE drain
    /\ req' = NoReq
    /\ UNCHANGED <<config, pc, exitCode, mcpTransport, mcpClient, server,
                   connectCalls, closeDone, reqs, nextReq, warnings>>

\* gracefulShutdown(signal), lines 491-521, as run by the handlers of lines
\* 524-525: server.close(callback) stops the listener and registers the
\* callback for the server's 'close' event (also when the handle is already
\* closed), and a force-shutdown timer is armed.
gracefulShutdown(sig) ==
    /\ Running
    /\ pc = "serving"
    /\ sig \in {"SIGTERM", "SIGINT"}
    /\ Len(cb) < MaxSignals
    /\ IF server # "undefined"
         THEN /\ server' = "closed"
              /\ cb' = Append(cb, "registered")
              /\ timers' = timers + 1
              /\ drain' = IF cb = <<>> THEN Pending ELSE drain
              /\ UNCHANGED <<pc, exitCode>>
         ELSE /\ Exit(0)
              /\ UNCHANGED <<server, cb, timers, drain>>
    /\ req' = NoReq
    /\ UNCHANGED <<config, mcpTransport, mcpClient, session, connectCalls,
                   closeCalls, closeDone, reqs, nextReq, warnings>>

Registered == {i \in 1..Len(cb) : cb[i] = "registered"}

\* The callbacks run as soon as server.close() has been called, without
\* waiting for the open connections.
ServerCloseEvent_NoDrain ==
    /\ Running
    /\ server = "closed"
    /\ Registered # {}
    /\ closeCalls' = closeCalls + Cardinality(Registered)
    /\ session' = "closing"
    /\ cb' = [i \in 1..Len(cb) |->
                IF i \in Registered THEN "closing" ELSE cb[i]]
    /\ req' = NoReq
    /\ UNCHANGED <<config, pc, exitCode, mcpTransport, mcpClient, server,
                   connectCalls, closeDone, timers, reqs, nextReq, drain,
                   warnings>>

\* The server's 'close' event: the handle is closed and the last connection
\* has ended.  Every callback registered so far runs up to its await
\* (lines 496-502).
ServerCloseEvent ==
    /\ Running
    /\ server = "closed"
    /\ Pending = {}
    /\ Registered # {}
    /\ IF mcpClient
         THEN /\ closeCalls' = closeCalls + Cardinality(Registered)
              /\ session' = "closing"
              /\ cb' = [i \in 1..Len(cb) |->
                          IF i \in Registered THEN "closing" ELSE cb[i]]
              /\ UNCHANGED <<pc, exitCode>>
         ELSE /\ Exit(0)
              /\ UNCHANGED <<closeCalls, session, cb>>
    /\ req' = NoReq
    /\ UNCHANGED <<config, mcpTransport, mcpClient, server, connectCalls,
                   closeDone, timers, reqs, nextReq, drain, warnings>>

\* The mcpClient.close() awaited by callback i settles; ok says whether it
\* resolved or rejected (the rejection is caught and logged, lines 503-506).
\* Either way the callback goes on to process.exit(0), lines 509-510.
CloseSettles(i, ok) ==
    /\ Running
    /\ i \in 1..Len(cb)
    /\ cb[i] = "closing"
    /\ ok \in BOOLEAN
    /\ closeDone' = closeDone + 1
    /\ session' = IF ok THEN "closed" ELSE session
    /\ cb' = [cb EXCEPT ![i] = "done"]
    /\ Exit(0)
    /\ req' = NoReq
    /\ UNCHANGED <<config, mcpTransport, mcpClient, server, connectCalls,
                   closeCalls, timers, reqs, nextReq, drain, warnings>>

\* The callback of a force-shutdown timer (lines 513-517).
DeadlineFires ==
    /\ Running
    /\ timers > 0
    /\ Exit(1)
    /\ req' = NoReq
    /\ UNCHANGED <<config, mcpTransport, mcpClient, server, session,
                   connectCalls, closeCalls, closeDone, cb, timers, reqs,
                   nextReq, drain, warnings>>

----------------------------------------------------------------------------
(* Specifications *)

Next ==
    \/ ValidateEnv
    \/ \E ctor \in {"none", "transport", "client"} : initMCPClient(ctor)
    \/ ConnectResolves
    \/ \E e \in Errors : ConnectRejects(e)
    \/ ProbeResolves
    \/ \E e \in Errors : ProbeRejects(e)
    \/ \E sig \in {130, 143} : EarlySignal(sig)
    \/ \E ep \in Routes, h \in Headers :
          \E b \in BodiesOf(ep) : Request(ep, h[1], h[2], b[1], b[2])
    \/ ConnectionRefused
    \/ \E r \in 1..MaxRequests, p \in Payloads : UpstreamResolves(r, p)
    \/ \E r \in 1..MaxRequests, e \in Errors, crash \in BOOLEAN :
          UpstreamRejects(r, e, crash)
    \/ \E sig \in {"SIGTERM", "SIGINT"} : gracefulShutdown(sig)
    \/ ServerCloseEvent
    \/ \E i \in 1..MaxSignals, ok \in BOOLEAN : CloseSettles(i, ok)
    \/ DeadlineFires

Spec == Init /\ [][Next]_vars

\* The event loop runs the callback of an armed timer once its delay has
\* passed; nothing in the program cancels the timer.
LiveSpec == Spec /\ WF_vars(DeadlineFires)

----------------------------------------------------------------------------
(* Claims *)

\* The last step ran a handler from the arrival of its request (Handled) or
\* from the settling of its upstream call (Settled); Outcome is what has
\* become of that request.
Handled == req.id # 0 /\ req.up = "none"
Settled == req.id # 0 /\ req.up # "none"
Outcome == reqs[req.id]

\* C1: with a key configured, a request to a protected route is answered 401
\* when it presents no key, 403 when the key it presents differs from the
\* configured one, and reaches the route's handler only with the configured
\* key.
C1_KeyRequired ==
    (Handled /\ req.ep \in Protected /\ ~Falsy(API_KEY)) =>
        LET k == PresentedKey(req.xkey, req.auth)
        IN  /\ Falsy(k) => Outcome.status = 401 /\ Outcome.calls = 0
            /\ (~Falsy(k) /\ k # API_KEY) =>
                   Outcome.status = 403 /\ Outcome.calls = 0
            /\ Outcome.status \notin {401, 403} => k = API_KEY

\* A key of the configured length and the wrong content has been refused.
C1_Witness ==
    /\ Handled /\ req.ep \in Protected /\ ~Falsy(API_KEY)
    /\ Len(PresentedKey(req.xkey, req.auth)) = Len(API_KEY)
    /\ Outcome.status = 403

\* C2: without a configured key, a request to a protected route is never
\* answered 401 or 403: whatever it presents, it gets what the route's handler
\* gives a request that passed the middleware.
C2_NoKeyConfigured ==
    (Handled /\ req.ep \in Protected /\ Falsy(API_KEY)) =>
        LET o == Endpoint(req.ep, req.query, req.cid)
        IN  /\ Outcome.status \notin {401, 403}
            /\ Outcome.calls = (IF o.invoke THEN 1 ELSE 0)
            /\ Outcome.status = o.status
            /\ Outcome.body = o.body

\* A request without any key went through to the upstream call.
C2_Witness ==
    /\ Handled /\ req.ep \in Protected /\ Falsy(API_KEY)
    /\ Falsy(PresentedKey(req.xkey, req.auth))
    /\ Outcome.st = "pending"

\* C3: the connect is started at most once, and whenever the listener accepts
\* connections initMCPClient has run to its end and its connect has succeeded.
C3_ConnectOnceBeforeListen ==
    /\ connectCalls <= 1
    /\ (Running /\ server = "listening") =>
           pc = "serving" /\ session = "connected" /\ connectCalls = 1

C3_Witness ==
    /\ Running /\ server = "listening" /\ session = "connected" /\ connectCalls = 1
    /\ \E r \in 1..MaxRequests : reqs[r].st = "answered"

\* C4: when the connect fails, or the process ends before a connect was ever
\* started, the exit code is 1, the listener was never started and no request
\* was served.
C4_FailedStartupExits ==
    (session = "failed" \/ (pc = "exited" /\ session = "none")) =>
        /\ pc = "exited" /\ exitCode = 1
        /\ server = "undefined"
        /\ \A r \in 1..MaxRequests : reqs[r].st \in {"new", "refused"}

C4_Witness == session = "failed" /\ exitCode = 1 /\ connectCalls = 1

\* C5: the MCP client's close is started only after the listener has stopped
\* and every request has been answered, and the process exits with code 0
\* only after a close has settled.
C5_GracefulOrder ==
    /\ closeCalls > 0 =>
           /\ server = "closed"
           /\ Pending = {}
           /\ \A r \in drain : reqs[r].st = "answered"
    /\ exitCode = 0 => closeCalls > 0 /\ closeDone > 0

\* A graceful exit after a request that was in flight when the signal came.
C5_Witness == exitCode = 0 /\ drain # {} /\ closeDone > 0

\* C6: a request that was in flight when the signal came is answered once
\* its upstream call has finished, and it is left unanswered at the exit only
\* when the force-shutdown timer ended the process (exit code 1) while its
\* call was still pending.
C6_InFlightAnswered ==
    \A r \in drain :
        /\ reqs[r].st \in {"pending", "answered"}
        /\ (pc = "exited" /\ reqs[r].st = "pending") => exitCode = 1

\* C7: once gracefulShutdown has run, a force-shutdown timer is armed for as
\* long as the process runs, and the process eventually exits, also when an
\* upstream call or the client's close never settles.
C7_ShutdownTerminates ==
    /\ [](cb # <<>> /\ Running => timers > 0)
    /\ (cb # <<>>) ~> (pc = "exited")

\* The timer ended the process while a request was still pending.
C7_Witness ==
    /\ pc = "exited" /\ exitCode = 1 /\ timers > 0
    /\ Pending # {}
    /\ \A r \in 1..MaxRequests : reqs[r].st # "lost"

\* C8: however many signals arrive, the MCP client's close is called at most
\* once.
C8_CloseAtMostOnce == closeCalls <= 1

\* C9 as stated: a request made once the client's close has started is
\* answered 503 and not forwarded.
C9_ClosedAnswers503 ==
    \A r \in 1..MaxRequests :
        (reqs[r].st # "new" /\ reqs[r].sess \in {"closing", "closed"}) =>
            reqs[r].status = 503 /\ reqs[r].calls = 0

\* C9, amended: an upstream call is only ever made on a connected handle; a
\* request attempted once the client's close has started is refused at the
\* closed listener, so that it gets no response at all and makes no call.
C9_ClosedNeverInvoked ==
    \A r \in 1..MaxRequests :
        /\ reqs[r].calls > 0 => reqs[r].sess = "connected"
        /\ (reqs[r].st # "new" /\ reqs[r].sess \in {"closing", "closed"}) =>
               reqs[r].st = "refused" /\ reqs[r].status = 0

C9_Witness ==
    \E r \in 1..MaxRequests :
        reqs[r].st = "refused" /\ reqs[r].sess = "closing" /\ closeCalls > 0

\* C10 as stated: a request made before the connect has completed is answered
\* with the not-ready response.
C10_EarlyAnswersNotReady ==
    \A r \in 1..MaxRequests :
        (reqs[r].st # "new" /\ reqs[r].sess \in {"none", "connecting"}) =>
            reqs[r].status = 503 /\ reqs[r].calls = 0

\* C10, amended: a request attempted before the connect has completed finds
\* no listener: it is refused, gets no response, and nothing is called on the
\* absent or connecting handle.
C10_EarlyNeverInvoked ==
    \A r \in 1..MaxRequests :
        (reqs[r].st # "new" /\ reqs[r].sess \in {"none", "connecting"}) =>
            reqs[r].st = "refused" /\ reqs[r].status = 0 /\ reqs[r].calls = 0

C10_Witness ==
    \E r \in 1..MaxRequests :
        reqs[r].st = "refused" /\ reqs[r].sess = "connecting" /\ mcpClient

\* C11: when the upstream call of a request resolves, the request is answered
\* 200 with the payload the call resolved with, also when the payload reports
\* an error of the tool.
C11_PayloadPassedThrough ==
    (Settled /\ req.up \in Payloads) =>
        /\ Outcome.st = "answered"
        /\ Outcome.status = 200
        /\ Outcome.body = req.up

C11_Witness == Settled /\ req.up = "isError" /\ Outcome.status = 200

\* C12: when the upstream call of a request rejects, the request is answered
\* 500 with the handler's error envelope (error, code, data, requestId).
C12_RejectionAnswered500 ==
    (Settled /\ req.up \in Errors) =>
        /\ Outcome.st = "answered"
        /\ Outcome.status = 500
        /\ Outcome.body = "error envelope"

\* The request of the last step passed the middleware.
Authenticated == authenticateApiKey(req.xkey, req.auth).next

C14_AtMostOneInvocation ==
    \A r \in 1..MaxRequests :
        /\ reqs[r].calls <= 1
        /\ reqs[r].body \in Payloads => reqs[r].calls = 1
        /\ reqs[r].status \in {400, 401, 403, 404, 503} => reqs[r].calls = 0

\* A request whose only call was rejected has been answered.
C14_Witness ==
    /\ Settled /\ req.up \in Errors
    /\ Outcome.st = "answered" /\ Outcome.calls = 1

\* C15: GET /health is answered 200 with the health body whatever key the
\* request presents and whether or not a key is configured, and makes no
\* upstream call.
C15_HealthOpen ==
    (Handled /\ req.ep = Health) =>
        /\ Outcome.st = "answered"
        /\ Outcome.status = 200
        /\ Outcome.body = "health"
        /\ Outcome.calls = 0

\* A health request with a wrong key under a configured key.
C15_Witness ==
    /\ Handled /\ req.ep = Health /\ ~Falsy(API_KEY)
    /\ ~Falsy(PresentedKey(req.xkey, req.auth))
    /\ PresentedKey(req.xkey, req.auth) # API_KEY
    /\ Outcome.status = 200

\* C16: no failure met while a request is handled leaves its handler: no
\* request is lost to a crash of the process, and none is answered by the
\* framework's default error handler in place of the route's handler.
C16_NoFailureEscapes ==
    \A r \in 1..MaxRequests :
        reqs[r].st # "lost" /\ reqs[r].body # "Internal Server Error"

\* C17: the middleware compares as many bytes for every presented key as a
\* full comparison with the configured key does.
C17_ConstantWork ==
    (Handled /\ req.ep \in Protected /\ ~Falsy(API_KEY)
        /\ ~Falsy(PresentedKey(req.xkey, req.auth))) =>
        CompareWork(PresentedKey(req.xkey, req.auth)) = Len(API_KEY)

\* C18: when the startup probe fails after a successful connect, the session
\* stays connected and the listener starts.
C18_ProbeFailureTolerated ==
    (req.id = 0 /\ req.up \in Errors) =>
        pc = "serving" /\ session = "connected" /\ server = "listening"

\* C19: the warning about running without authentication is emitted once, at
\* startup, and never while a request is handled.
C19_WarnedOnce ==
    /\ warnings <= 1
    /\ (Falsy(API_KEY) /\ pc = "serving") => warnings = 1

\* C20: serializeError throws for no error value, and gives an error without
\* a message the message "unknown error".
C20_NormalizerTotal ==
    req.up \in Errors =>
        /\ ~serializeError(req.up).throws
        /\ MessageOf(req.up) = "undefined" =>
               serializeError(req.up).message = "unknown error"

\* C21: with a key configured, every presented key that is not the configured
\* one is refused with the same answer, 403 "Invalid API key", whether its
\* length or its content is wrong; no two refusals with status 403 differ, and
\* the middleware answers with no other status than 401 and 403.
C21_RejectionsAlike ==
    /\ (Handled /\ req.ep \in Protected /\ ~Falsy(API_KEY)
          /\ ~Falsy(PresentedKey(req.xkey, req.auth))
          /\ PresentedKey(req.xkey, req.auth) # API_KEY) =>
           /\ Outcome.st = "answered"
           /\ Outcome.status = 403
           /\ Outcome.body = "Invalid API key"
    /\ (Handled /\ req.ep \in Protected /\ ~Authenticated) =>
           Outcome.status \in {401, 403}
    /\ \A r, q \in 1..MaxRequests :
           (reqs[r].status = 403 /\ reqs[q].status = 403) =>
               reqs[r].body = reqs[q].body

\* A key of the wrong length is refused after another key was.
C21_Witness ==
    /\ Handled /\ req.ep \in Protected /\ ~Falsy(API_KEY)
    /\ ~Falsy(PresentedKey(req.xkey, req.auth))
    /\ Len(PresentedKey(req.xkey, req.auth)) # Len(API_KEY)
    /\ Outcome.status = 403
    /\ \E r \in 1..MaxRequests : r # req.id /\ reqs[r].status = 403

\* C22: a request the middleware refuses is answered 401 or 403 whatever its
\* body, never with an answer of the handler (503, 400, 500), and it makes no
\* upstream call.
C22_CredentialFirst ==
    /\ (Handled /\ req.ep \in Protected /\ ~Authenticated) =>
           /\ Outcome.st = "answered"
           /\ Outcome.status = authenticateApiKey(req.xkey, req.auth).status
           /\ Outcome.body = authenticateApiKey(req.xkey, req.auth).body
           /\ Outcome.calls = 0
    /\ \A r \in 1..MaxRequests :
           reqs[r].status \in {401, 403} =>
               reqs[r].st = "answered" /\ reqs[r].calls = 0

\* A refused request whose body the handler would have answered 400.
C22_Witness ==
    /\ Handled /\ req.ep = ExecuteGaql /\ ~Authenticated
    /\ Falsy(req.query)
    /\ Outcome.status \in {401, 403}

\* C23: a request leaves the pending state only in the step that settles
\* its own upstream call, it is then answered with the payload that call
\* resolved with, and the step leaves every other request as it was, pending
\* ones included.
C23_OwnResult ==
    [][\A r \in 1..MaxRequests :
         (reqs[r].st = "pending" /\ reqs'[r].st # "pending") =>
             /\ req'.id = r
             /\ req'.up \in Payloads =>
                    reqs'[r].status = 200 /\ reqs'[r].body = req'.up
             /\ \A q \in 1..MaxRequests : q # r => reqs'[q] = reqs[q]]_vars

\* The second request was issued while the first was pending, and is answered
\* first.
C23_Witness ==
    /\ MaxRequests >= 2
    /\ reqs[1].st = "pending" /\ reqs[1].calls = 1
    /\ Settled /\ req.id = 2 /\ req.up \in Payloads
    /\ reqs[2].st = "answered" /\ reqs[2].body = req.up

\* C24: the session handle is set whenever the listener accepts requests and
\* stays set once the session is being closed or is closed, so no request is
\* answered 503 and every health answer reports the upstream as connected.
C24_HandleNeverCleared ==
    /\ server = "listening" => mcpClient
    /\ (closeCalls > 0 \/ session \in {"closing", "closed"}) => mcpClient
    /\ \A r \in 1..MaxRequests : reqs[r].status # 503
    /\ (Handled /\ req.ep = Health) => mcpConnected
    /\ (Handled /\ req.ep \in Protected /\ Authenticated) =>
           Outcome.body # "MCP client not initialized"

\* The session has been closed after a health request was answered.
C24_Witness ==
    /\ session = "closed" /\ mcpClient
    /\ \E r \in 1..MaxRequests : reqs[r].body = "health"

\* C25: a request that has been answered is never answered again, and a
\* request that goes on to its upstream call has not been answered.
C25_OneResponse ==
    [][\A r \in 1..MaxRequests :
         /\ reqs[r].status # 0 => reqs'[r] = reqs[r]
         /\ reqs'[r].st = "pending" =>
                reqs'[r].status = 0 /\ reqs'[r].body = "none"
         /\ reqs'[r].st = "answered" => reqs'[r].status # 0]_vars

\* Both requests have been answered, one by the middleware and one with its
\* upstream payload.
C25_Witness ==
    /\ \E r \in 1..MaxRequests : reqs[r].status \in {401, 403}
    /\ \E r \in 1..MaxRequests : reqs[r].status = 200 /\ reqs[r].calls = 1

====
